---- MODULE Spec2Model ----
(***************************************************************************)
(* Model of Visualize_Profile.py (NeuroSync Cognitive Twin Dashboard).     *)
(*                                                                         *)
(* One Streamlit session: st.session_state, the "generate" form handler of *)
(* tab 1 and the "reflect" form handler of tab 2.  Each handler is one     *)
(* action: the script runs top to bottom for one submission, synchronously.*)
(*                                                                         *)
(* Representation                                                          *)
(*  - Python str values the code transforms (lower, strip, split, title,   *)
(*    CSV text) are sequences of one-character strings.                    *)
(*  - Python dicts are functions; a missing key is a key not in DOMAIN.    *)
(*  - Floats are fixed-point integers: neurotransmitter levels, weights    *)
(*    and normalized mood scores in hundredths, sentiment scores in        *)
(*    tenths, the mood score in tenths of a point.                         *)
(***************************************************************************)
EXTENDS Integers, Sequences, FiniteSets, TLC

VARIABLES
    session_state,   \* st.session_state: dict of the session
    ui,              \* what the last script run sent and rendered
    reflections_ok,  \* number of reflect submissions that completed successfully
    fn_in,           \* input of the pure computation under study
    fn_out           \* its result: <<>> before it ran, <<result>> after

vars == <<session_state, ui, reflections_ok, fn_in, fn_out>>

----------------------------------------------------------------------------
(* Bounds of the model *)

MaxEntries == 2      \* reflections recorded in one session

----------------------------------------------------------------------------
(* Python dict helpers *)

Get(d, k, default) == IF k \in DOMAIN d THEN d[k] ELSE default

Put(d, k, v) == [x \in (DOMAIN d) \cup {k} |-> IF x = k THEN v ELSE d[x]]

Without(d, k) == [x \in (DOMAIN d) \ {k} |-> d[x]]

----------------------------------------------------------------------------
(* Python str helpers on sequences of characters *)

UpperChars == <<"A","B","C","D","E","F","G","H","I","J","K","L","M",
                "N","O","P","Q","R","S","T","U","V","W","X","Y","Z">>
LowerChars == <<"a","b","c","d","e","f","g","h","i","j","k","l","m",
                "n","o","p","q","r","s","t","u","v","w","x","y","z">>

SP == " "
NL == "\n"

IsSpace(c) == c \in {SP, NL}

LowerChar(c) ==
    IF \E i \in 1..26 : UpperChars[i] = c
    THEN LowerChars[CHOOSE i \in 1..26 : UpperChars[i] = c]
    ELSE c

\* str.lower()
lower(s) == [i \in 1..Len(s) |-> LowerChar(s[i])]

\* str.strip(): drop leading and trailing whitespace
strip(s) ==
    LET keep == {i \in 1..Len(s) : ~IsSpace(s[i])} IN
    IF keep = {} THEN <<>>
    ELSE LET lo == CHOOSE i \in keep : \A j \in keep : i <= j
             hi == CHOOSE i \in keep : \A j \in keep : i >= j
         IN  SubSeq(s, lo, hi)

\* Position of the first element of s satisfying "is c", or 0
FirstIndex(s, c) ==
    IF \E i \in 1..Len(s) : s[i] = c
    THEN CHOOSE i \in 1..Len(s) : s[i] = c /\ \A j \in 1..(i-1) : s[j] # c
    ELSE 0

\* s.split(sep) for a one-character separator: Len = occurrences of sep + 1
RECURSIVE SplitOn(_, _)
SplitOn(s, sep) ==
    LET i == FirstIndex(s, sep) IN
    IF i = 0 THEN <<s>>
    ELSE <<SubSeq(s, 1, i-1)>> \o SplitOn(SubSeq(s, i+1, Len(s)), sep)

\* str.split() with no argument: split on runs of whitespace, no empty words
split(s) ==
    SelectSeq(SplitOn([i \in 1..Len(s) |-> IF IsSpace(s[i]) THEN SP ELSE s[i]], SP),
              LAMBDA w : w # <<>>)

\* sep.join(parts)
RECURSIVE Join(_, _)
Join(parts, sep) ==
    IF parts = <<>> THEN <<>>
    ELSE IF Len(parts) = 1 THEN parts[1]
    ELSE parts[1] \o <<sep>> \o Join(Tail(parts), sep)

\* Lexicographic order of Python str comparison, on the characters used here
CharOrder == <<SP, "0","1","2","3","4","5","6","7","8","9">> \o UpperChars \o LowerChars

CharRank(c) == FirstIndex(CharOrder, c)

RECURSIVE StrLess(_, _)
StrLess(a, b) ==
    IF b = <<>> THEN FALSE
    ELSE IF a = <<>> THEN TRUE
    ELSE IF a[1] = b[1] THEN StrLess(Tail(a), Tail(b))
    ELSE CharRank(a[1]) < CharRank(b[1])

----------------------------------------------------------------------------
(* Number formatting and parsing, as pandas writes and reads CSV cells *)

Digits == <<"0","1","2","3","4","5","6","7","8","9">>

DigitOf(c) == FirstIndex(Digits, c) - 1

RECURSIVE NatToStr(_)
NatToStr(n) ==
    IF n < 10 THEN <<Digits[n+1]>>
    ELSE NatToStr(n \div 10) \o <<Digits[(n % 10) + 1]>>

RECURSIVE StrToNat(_)
StrToNat(s) ==
    IF s = <<>> THEN 0
    ELSE 10 * StrToNat(SubSeq(s, 1, Len(s)-1)) + DigitOf(s[Len(s)])

\* Mutant: the cell is written with one decimal, truncated
FormatFloat_onedecimal(h) ==
    LET a == IF h < 0 THEN -h ELSE h
    IN  (IF h < 0 THEN <<"-">> ELSE <<>>) \o NatToStr(a \div 100) \o <<".">>
            \o <<Digits[((a % 100) \div 10) + 1]>>

\* repr of a float given in hundredths: 50 -> "0.5", 67 -> "0.67", 100 -> "1.0",
\* -17 -> "-0.17"
FormatFloat(h) ==
    LET a    == IF h < 0 THEN -h ELSE h
        frac == IF (a % 100) % 10 = 0
                THEN <<Digits[((a % 100) \div 10) + 1]>>
                ELSE <<Digits[((a % 100) \div 10) + 1], Digits[((a % 100) % 10) + 1]>>
    IN  (IF h < 0 THEN <<"-">> ELSE <<>>) \o NatToStr(a \div 100) \o <<".">> \o frac

\* float(text), in hundredths, for texts with at most two decimals
ParseFloat(s) ==
    LET neg  == s # <<>> /\ s[1] = "-"
        body == IF neg THEN Tail(s) ELSE s
        dot  == FirstIndex(body, ".")
        ip   == IF dot = 0 THEN body ELSE SubSeq(body, 1, dot-1)
        fp   == IF dot = 0 THEN <<>> ELSE SubSeq(body, dot+1, Len(body))
        frac == IF Len(fp) = 0 THEN 0
                ELSE IF Len(fp) = 1 THEN 10 * DigitOf(fp[1])
                ELSE 10 * DigitOf(fp[1]) + DigitOf(fp[2])
        mag  == 100 * StrToNat(ip) + frac
    IN  IF neg THEN -mag ELSE mag

\* round(n / d) for d > 0, ties to even (Python round)
RoundHalfEven(n, d) ==
    LET q == n \div d
        r == n % d
    IN  IF 2 * r < d THEN q
        ELSE IF 2 * r > d THEN q + 1
        ELSE IF q % 2 = 0 THEN q ELSE q + 1

----------------------------------------------------------------------------
(* Texts used as inputs *)

S_morning   == <<"m","o","r","n","i","n","g">>
S_Morning   == <<"M","o","r","n","i","n","g">>
S_evening   == <<"e","v","e","n","i","n","g">>
S_EVENING   == <<"E","V","E","N","I","N","G">>
S_night     == <<"n","i","g","h","t">>
S_lavender  == <<"l","a","v","e","n","d","e","r">>
S_Lavender  == <<"L","a","v","e","n","d","e","r">>
S_rose      == <<"r","o","s","e">>
S_vanilla   == <<"v","a","n","i","l","l","a">>
S_tonkabean == <<"t","o","n","k","a"," ","b","e","a","n">>
S_citrus    == <<"c","i","t","r","u","s">>
S_Citrus    == <<"C","i","t","r","u","s">>
S_mint      == <<"m","i","n","t">>
S_bergamot  == <<"b","e","r","g","a","m","o","t">>
S_linalool  == <<"l","i","n","a","l","o","o","l">>
S_cedar     == <<"c","e","d","a","r">>

W_happy       == <<"h","a","p","p","y">>
W_hopeful     == <<"h","o","p","e","f","u","l">>
W_excited     == <<"e","x","c","i","t","e","d">>
W_motivated   == <<"m","o","t","i","v","a","t","e","d">>
W_anxious     == <<"a","n","x","i","o","u","s">>
W_sad         == <<"s","a","d">>
W_tired       == <<"t","i","r","e","d">>
W_overwhelmed == <<"o","v","e","r","w","h","e","l","m","e","d">>
W_Happy       == <<"H","a","p","p","y">>
W_but         == <<"b","u","t">>

----------------------------------------------------------------------------
(* Mood score, lines 143-152.  Levels and weights in hundredths, so the    *)
(* weighted sum is in units of 1/10000 and the mood score in tenths.       *)

W_dopamine  == 25
W_serotonin == 25
W_oxytocin  == 20
W_GABA      == 20
W_cortisol  == -15

weights == [dopamine |-> W_dopamine, serotonin |-> W_serotonin,
            oxytocin |-> W_oxytocin, GABA |-> W_GABA, cortisol |-> W_cortisol]

NtKeys == <<"dopamine", "serotonin", "oxytocin", "GABA", "cortisol">>

RECURSIVE SumSeq(_)
SumSeq(s) == IF s = <<>> THEN 0 ELSE s[1] + SumSeq(Tail(s))

\* sum(nt.get(k, 0) * w for k, w in weights.items())
WeightedSum(nt) == SumSeq([i \in 1..5 |-> Get(nt, NtKeys[i], 0) * weights[NtKeys[i]]])

\* Mutant: the clamp left out
Clamp01_unclamped(x) == x

\* max(0, min(1, x)) with 1 = 10000 units
Clamp01(x) ==
    LET lo == IF 10000 < x THEN 10000 ELSE x
    IN  IF 0 > lo THEN 0 ELSE lo

\* round(clamped * 100, 1), in tenths.  An exact tie (second decimal 5) is
\* decided by the binary rounding error of the float sum, so both neighbours
\* are possible results.
MoodScoreValues(nt) ==
    LET c == Clamp01(WeightedSum(nt)) IN
    IF c % 10 = 5 THEN {c \div 10, (c \div 10) + 1}
    ELSE {RoundHalfEven(c, 10)}

----------------------------------------------------------------------------
(* Circadian rhythm & scent guidance, lines 217-231 *)

daytime_scents   == {S_citrus, S_mint, S_bergamot, S_linalool}
nighttime_scents == {S_lavender, S_rose, S_vanilla, S_tonkabean}

\* Which st.info tip lines 227-231 emit for a profile: "morning", "evening" or "none"
ScentTip(profile) ==
    LET circadian_window == Get(profile, "circadian_window", <<>>)
        user_scent       == strip(lower(Get(profile, "scent_note", <<>>)))
    IN  IF user_scent # <<>>
        THEN IF circadian_window = S_morning /\ user_scent \in nighttime_scents
             THEN "morning"
             ELSE IF circadian_window = S_evening /\ user_scent \in daytime_scents
                  THEN "evening"
                  ELSE "none"
        ELSE "none"

----------------------------------------------------------------------------
(* Reflection keyword score, lines 334-338 *)

pos == {W_happy, W_hopeful, W_excited, W_motivated}
neg == {W_anxious, W_sad, W_tired, W_overwhelmed}

CountIn(ws, S) == Len(SelectSeq(ws, LAMBDA w : w \in S))

KeywordScore(mood) ==
    LET mood_keywords == split(lower(mood))
    IN  CountIn(mood_keywords, pos) - CountIn(mood_keywords, neg)

\* round((score + 3) / 6, 2), in hundredths
Normalized(score) == RoundHalfEven(100 * (score + 3), 6)

----------------------------------------------------------------------------
(* difflib.get_close_matches(word, possibilities, n=1), called at line 191: *)
(* SequenceMatcher.ratio() = 2*M/T with M the size of the matching blocks   *)
(* (longest block first, earliest in a, then earliest in b, then           *)
(* recursively left and right of it), cutoff 0.6, best (ratio, string).    *)

Min(x, y) == IF x < y THEN x ELSE y

\* Length of the common run of a from i and b from j inside a[..ahi], b[..bhi]
RunLength(a, b, i, j, ahi, bhi) ==
    LET N == Min(ahi - i + 1, bhi - j + 1)
    IN  CHOOSE k \in 0..N :
            /\ \A t \in 0..(k-1) : a[i+t] = b[j+t]
            /\ (k = N \/ a[i+k] # b[j+k])

\* SequenceMatcher.find_longest_match(alo, ahi, blo, bhi): <<i, j, k>>
find_longest_match(a, b, alo, ahi, blo, bhi) ==
    LET cand == {<<i, j, RunLength(a, b, i, j, ahi, bhi)>> : i \in alo..ahi, j \in blo..bhi}
        Better(x, y) == \/ x[3] > y[3]
                        \/ x[3] = y[3] /\ x[1] < y[1]
                        \/ x[3] = y[3] /\ x[1] = y[1] /\ x[2] <= y[2]
    IN  IF cand = {} THEN <<alo, blo, 0>>
        ELSE CHOOSE x \in cand : \A y \in cand : Better(x, y)

\* Total size of SequenceMatcher.get_matching_blocks() inside the given window
RECURSIVE MatchedSize(_, _, _, _, _, _)
MatchedSize(a, b, alo, ahi, blo, bhi) ==
    IF alo > ahi \/ blo > bhi THEN 0
    ELSE LET m == find_longest_match(a, b, alo, ahi, blo, bhi) IN
         IF m[3] = 0 THEN 0
         ELSE m[3] + MatchedSize(a, b, alo, m[1] - 1, blo, m[2] - 1)
                   + MatchedSize(a, b, m[1] + m[3], ahi, m[2] + m[3], bhi)

\* SequenceMatcher(None, a, b).ratio() as the fraction <<2*M, T>>; 1.0 when T = 0
ratio(a, b) ==
    IF Len(a) + Len(b) = 0 THEN <<1, 1>>
    ELSE <<2 * MatchedSize(a, b, 1, Len(a), 1, Len(b)), Len(a) + Len(b)>>

\* ratio >= cutoff, the default cutoff being 0.6 = 3/5
AtLeastCutoff(r) == 5 * r[1] >= 3 * r[2]

\* (score, x) tuple order of heapq.nlargest
ScoredLess(r1, x1, r2, x2) ==
    \/ r1[1] * r2[2] < r2[1] * r1[2]
    \/ r1[1] * r2[2] = r2[1] * r1[2] /\ StrLess(x1, x2)

\* get_close_matches(word, possibilities, n=1): <<>> or <<best>>
get_close_matches(word, possibilities) ==
    LET result == {x \in {possibilities[i] : i \in 1..Len(possibilities)} :
                      AtLeastCutoff(ratio(x, word))}
    IN  IF result = {} THEN <<>>
        ELSE <<CHOOSE x \in result :
                   \A y \in result : y = x \/ ScoredLess(ratio(y, word), y, ratio(x, word), x)>>

----------------------------------------------------------------------------
(* find_game_entry, lines 185-194.  A Python value is <<type, value>>; the  *)
(* result is <<>> for None and <<g>> for the entry g.                      *)

PyStr(s) == <<"str", s>>
PyNone   == <<"NoneType", <<>>>>

IsStr(v) == v[1] = "str"

\* First entry of profiles whose lowercased name is key, as <<g>>, or <<>>:
\* the loop of lines 188-190 and the next(..., None) of line 192
FirstNamed(profiles, key) ==
    LET hits == {i \in 1..Len(profiles) : lower(profiles[i].name) = key}
    IN  IF hits = {} THEN <<>>
        ELSE <<profiles[CHOOSE i \in hits : \A j \in hits : i <= j]>>

Returned(v) == [raised |-> FALSE, value |-> v]
Raised      == [raised |-> TRUE, value |-> <<>>]

\* The try block, lines 187-192
find_game_entry_try(name, profiles) ==
    IF ~IsStr(name) THEN Raised        \* name.lower(): AttributeError
    ELSE LET game_name == strip(lower(name[2]))
             \* the loop stops at the first entry without "name" (KeyError)
             \* or whose lowercased name equals game_name (return g)
             stop == {i \in 1..Len(profiles) :
                         \/ "name" \notin DOMAIN profiles[i]
                         \/ lower(profiles[i].name) = game_name}
             first == CHOOSE i \in stop : \A j \in stop : i <= j
             matches == get_close_matches(game_name,
                            [i \in 1..Len(profiles) |-> lower(profiles[i].name)])
         IN  IF stop # {}
             THEN IF "name" \in DOMAIN profiles[first]
                  THEN Returned(<<profiles[first]>>)
                  ELSE Raised
             ELSE IF matches # <<>> THEN Returned(FirstNamed(profiles, matches[1]))
             ELSE Returned(<<>>)

\* try ... except: return None
find_game_entry(name, profiles) ==
    LET r == find_game_entry_try(name, profiles)
    IN  IF r.raised THEN Returned(<<>>) ELSE r

----------------------------------------------------------------------------
(* Backend responses and form inputs drawn by the handlers.  A response is  *)
(* [raises, status_code, json]: raises = requests.post raised (transport);  *)
(* json = <<kind, d>> with kind "invalid" (res.json() raises), "list" (a    *)
(* JSON value that is no object) or "dict" (the object d).                  *)

Response(raises, code, kind, d) ==
    [raises |-> raises, status_code |-> code, json |-> <<kind, d>>]

S_Halo == <<"H","a","l","o">>
S_20   == <<"2","0">>
S_soon == <<"s","o","o","n">>

NT_example == [dopamine |-> 80, serotonin |-> 80, oxytocin |-> 80, GABA |-> 80,
               cortisol |-> 20]

\* A complete profile: every key the renderer indexes, window "morning"
P_morning ==
    [neurotransmitters |-> NT_example, brain_regions |-> "regions",
     subvectors |-> "subvectors", xbox_game |-> S_Halo, game_mode |-> "Solo",
     duration_minutes |-> S_20, switch_time |-> "After 20 mins",
     spotify_playlist |-> "Focus", scent_reinforcement |-> "mint",
     circadian_window |-> S_morning, circadian_note |-> <<"early riser">>,
     scent_note |-> S_Lavender, goals_sentiment |-> 5]

\* Window "evening", a stimulating scent, no circadian_note key
P_evening ==
    Without([P_morning EXCEPT !.circadian_window = S_evening, !.scent_note = S_citrus],
            "circadian_note")

\* No circadian_window key at all
P_plain == Without(Without(P_morning, "circadian_window"), "circadian_note")

\* goals_sentiment 1.5: st.progress((1.5 + 1) / 2) raises inside show_sentiment_bar
P_badsent == [P_evening EXCEPT !.goals_sentiment = 15]

\* No subvectors key: profile["subvectors"] raises KeyError at line 176
P_nosubvectors == Without(P_evening, "subvectors")

\* duration_minutes "soon": rendered as text by generate, int("soon") raises in reflect
P_badduration == [P_plain EXCEPT !.duration_minutes = S_soon]

NoBody == <<>>

GenerateResponses ==
    { Response(TRUE, 0, "invalid", NoBody),
      Response(FALSE, 500, "invalid", NoBody),
      Response(FALSE, 200, "invalid", NoBody),
      Response(FALSE, 200, "dict", [status |-> "error", message |-> "boom"]),
      Response(FALSE, 200, "dict", [brain_regions |-> "regions"]) }
    \cup { Response(FALSE, 200, "dict", p) :
             p \in {P_morning, P_evening, P_badsent, P_nosubvectors, P_badduration} }

ReflectResponses ==
    { Response(TRUE, 0, "invalid", NoBody),
      Response(FALSE, 500, "dict", [detail |-> "error"]),
      Response(FALSE, 500, "invalid", NoBody),
      Response(FALSE, 200, "invalid", NoBody),
      Response(FALSE, 200, "dict", [journal_entry |-> "entry"]) }

Names == {"Ana", "Bo"}

\* "Current Mood" texts: keyword scores 0, 1, -4 and 4
MoodTexts ==
    { <<>>,
      W_Happy \o <<SP>> \o W_but \o <<SP>> \o W_tired \o <<SP>> \o W_hopeful,
      W_anxious \o <<SP>> \o W_sad \o <<SP, SP>> \o W_tired \o <<SP>> \o W_overwhelmed,
      W_happy \o <<SP>> \o W_hopeful \o <<SP>> \o W_excited \o <<SP>> \o W_motivated }

\* st.slider(..., 0, 5, 3), line 345, returns an integer of SliderMin..SliderMax;
\* the values drawn are its default and its maximum
SliderMin     == 0
SliderMax     == 5
SliderDefault == 3
FeedbackValues == {SliderDefault, SliderMax}

\* game_profiles.json as loaded at import, lines 21-22: read-only afterwards
game_profiles == << [name |-> S_Halo, challenge_level |-> "moderate"] >>

----------------------------------------------------------------------------
(* What a script run sent and rendered *)

\* kind: the form submitted ("load": none); res: the response received; posts:
\* the requests sent; error: the st.error text ("" for none); shown: the sections
\* rendered; then the values rendered in them
NoUi ==
    [kind |-> "load", res |-> Response(FALSE, 0, "invalid", NoBody), posts |-> <<>>,
     error |-> "", shown |-> {}, mood_score |-> <<>>, tip |-> "none",
     matched_game |-> <<>>, export |-> <<>>, trend |-> "", tab2 |-> "none"]

\* ReflectionTab_ungated: the tab with the test of line 297 left out
ReflectionTab_ungated(S) == "form"

\* Lines 297-304, what a script run that reaches the reflection tab puts in
\* it: the warning without a stored profile, the reflection form with one
ReflectionTab(S) == IF "profile" \notin DOMAIN S THEN "warning" ELSE "form"

\* The st.error texts of lines 83, 89 and 92, each followed by a return out of
\* main (lines 85, 90, 94): the script run ends before line 282 builds the
\* reflection tab, which is left empty
MainReturned(err) ==
    err \in {"API error.", "Server Error",
             "Backend did not return neurotransmitter data."}

----------------------------------------------------------------------------
(* Generate handler, lines 59-280 *)

\* show_sentiment_bar, lines 97-108: st.progress((score + 1) / 2) accepts only
\* a value in [0.0, 1.0]; score in tenths
SentimentBarRaises(score) == (score + 10) < 0 \/ (score + 10) > 20

\* Rendering after the first commit, in source order: the section shown and
\* the keys it indexes with profile[...] (KeyError when one is missing)
RenderSteps ==
    << [tag |-> "neurotransmitters", needs |-> {"neurotransmitters"}],
       [tag |-> "brain_regions",     needs |-> {"brain_regions"}],
       [tag |-> "mood_score",        needs |-> {}],
       [tag |-> "subvectors",        needs |-> {"subvectors"}],
       [tag |-> "game",              needs |-> {"xbox_game", "game_mode",
                                                "duration_minutes", "switch_time"}],
       [tag |-> "playlist",          needs |-> {"spotify_playlist"}],
       [tag |-> "olfactory",         needs |-> {"scent_reinforcement"}],
       [tag |-> "scent_guidance",    needs |-> {}] >>

\* Index of the first step that raises KeyError, or Len(RenderSteps) + 1
FirstKeyError(profile) ==
    LET bad == {i \in 1..Len(RenderSteps) : ~(RenderSteps[i].needs \subseteq DOMAIN profile)}
    IN  IF bad = {} THEN Len(RenderSteps) + 1
        ELSE CHOOSE i \in bad : \A j \in bad : i <= j

RenderedBefore(n) == {RenderSteps[i].tag : i \in 1..(n-1)}

\* Mutant: a non-200 response is retried once
GeneratePosts_retry(res) ==
    IF ~res.raises /\ res.status_code # 200
    THEN <<"/generate", "/generate">>
    ELSE <<"/generate">>

\* The one requests.post of the handler, line 81: no loop, no retry
GeneratePosts(res) == <<"/generate">>

\* Line 96: st.session_state["profile"] = profile
StoreProfile(S, profile) == Put(S, "profile", profile)

\* Lines 116-119
StoreTwin(S, profile, name) ==
    Put(Put(Put(Put(S, "twin_data", profile),
                "name", name),
            "circadian_window", Get(profile, "circadian_window", <<>>)),
        "circadian_note", Get(profile, "circadian_note", <<>>))

\* Lines 274-277
StoreFinal(S, profile, name) ==
    Put(Put(Put(Put(S, "profile", profile),
                "twin_data", profile),
            "name", name),
        "circadian_window", Get(profile, "circadian_window", <<>>))

\* What lines 143-231 compute from an accepted profile alone
ProfileFacts(profile) ==
    [moods |-> MoodScoreValues(Get(profile, "neurotransmitters", <<>>)),
     tip   |-> ScentTip(profile),
     matched_game |-> IF "xbox_game" \in DOMAIN profile
                      THEN find_game_entry(PyStr(profile.xbox_game), game_profiles).value
                      ELSE <<>>,
     first_key_error |-> FirstKeyError(profile)]

\* ProfileFacts of every response body drawn, evaluated once
ProfileFactsOf == [res \in GenerateResponses |-> ProfileFacts(res.json[2])]

\* What a run of the handler leaves: the session state, the st.error text
\* ("" for none), the sections rendered and the values rendered in them
GenerateOutcome(S, err, shown, mood, facts) ==
    [state |-> S, error |-> err, shown |-> shown,
     mood_score |-> IF "mood_score" \in shown THEN <<mood>> ELSE <<>>,
     tip |-> IF "scent_guidance" \in shown THEN facts.tip ELSE "none",
     matched_game |-> IF "game" \in shown THEN facts.matched_game ELSE <<>>]

\* The run of the handler on response res.  facts is ProfileFactsOf[res] and
\* mood the value round() gives the mood score.
GenerateRun(S0, name, res, mood, facts) ==
    LET profile == res.json[2]
        S1 == StoreProfile(S0, profile)
        S2 == StoreTwin(S1, profile, name)
        rendered == {"sentiment", "success"} \cup RenderedBefore(facts.first_key_error)
    IN  IF res.raises
        THEN GenerateOutcome(S0, "Request failed", {}, mood, facts)              \* 81, 279
        ELSE IF res.status_code # 200
        THEN GenerateOutcome(S0, "API error.", {"res.text"}, mood, facts)        \* 82-85
        ELSE IF res.json[1] # "dict"
        THEN GenerateOutcome(S0, "Request failed", {}, mood, facts)              \* 87-88, 279
        ELSE IF Get(profile, "status", "") = "error"
        THEN GenerateOutcome(S0, "Server Error", {}, mood, facts)                \* 88-90
        ELSE IF "neurotransmitters" \notin DOMAIN profile
        THEN GenerateOutcome(S0, "Backend did not return neurotransmitter data.",
                             {"profile dump"}, mood, facts)                      \* 91-94
        ELSE IF SentimentBarRaises(Get(profile, "goals_sentiment", 0))
                \/ SentimentBarRaises(Get(profile, "stressors_sentiment", 0))
        THEN GenerateOutcome(S1, "Request failed", {"sentiment"}, mood, facts)   \* 96-114, 279
        ELSE IF facts.first_key_error <= Len(RenderSteps)
        THEN GenerateOutcome(S2, "Request failed", rendered, mood, facts)        \* 116-216, 279
        ELSE GenerateOutcome(StoreFinal(S2, profile, name), "", rendered,
                             mood, facts)                                        \* 116-277

Generate ==
    \E name \in Names, res \in GenerateResponses :
      \E facts \in {ProfileFactsOf[res]} :
        \E mood \in facts.moods :
          \E r \in {GenerateRun(session_state, name, res, mood, facts)} :
            /\ session_state' = r.state
            /\ ui' = [NoUi EXCEPT !.kind = "generate", !.res = res,
                                  !.posts = GeneratePosts(res),
                                  !.error = r.error, !.shown = r.shown,
                                  !.mood_score = r.mood_score, !.tip = r.tip,
                                  !.matched_game = r.matched_game,
                                  !.tab2 = IF MainReturned(r.error) THEN "none"
                                           ELSE ReflectionTab(r.state)]
            /\ UNCHANGED <<reflections_ok, fn_in, fn_out>>

----------------------------------------------------------------------------
(* Reflect handler, lines 297-384 *)

IsDigits(s) == s # <<>> /\ \A i \in 1..Len(s) : s[i] \in {Digits[d] : d \in 1..10}

\* Lines 307-324, outside the try: int(profile.get("duration_minutes") or 20)
PayloadRaises(profile) ==
    LET v == Get(profile, "duration_minutes", <<>>)
    IN  v # <<>> /\ ~IsDigits(v)

\* Line 339 and line 346
AppendScore(S, normalized) ==
    [S EXCEPT !["emotion_timeline"] = Append(@, normalized)]

\* Mutant: the rating is not logged
AppendFeedback_dropped(S, feedback) == S

AppendFeedback(S, feedback) ==
    [S EXCEPT !["feedback_log"] = Append(@, feedback)]

\* Lines 349-358: df_log.to_csv(buffer, index=False).  Row i of n carries the
\* timestamp now - (n - i) minutes, written here as "T-<minutes>".
CsvHeader ==
    << <<"T","i","m","e","s","t","a","m","p">>,
       <<"M","o","o","d"," ","S","c","o","r","e">>,
       <<"F","e","e","d","b","a","c","k">>,
       <<"C","i","r","c","a","d","i","a","n"," ","W","i","n","d","o","w">> >>

CsvLine(cells) == Join(cells, ",") \o <<NL>>

RECURSIVE Concat(_)
Concat(ss) == IF ss = <<>> THEN <<>> ELSE ss[1] \o Concat(Tail(ss))

ExportCsv(S) ==
    LET timeline == S["emotion_timeline"]
        n        == Len(timeline)
        window   == Get(S, "circadian_window", <<>>)
        row(i)   == << <<"T", "-">> \o NatToStr(n - i),
                       FormatFloat(timeline[i]),
                       NatToStr(S["feedback_log"][i]),
                       window >>
    IN  CsvLine(CsvHeader) \o Concat([i \in 1..n |-> CsvLine(row(i))])

\* pandas.read_csv of the export: the data rows as cell texts
ParseCsv(text) ==
    LET lines == SplitOn(text, NL)
        data  == SubSeq(lines, 2, Len(lines) - 1)   \* drop header and the empty tail
    IN  [i \in 1..Len(data) |-> SplitOn(data[i], ",")]

\* Mutant: a tie counts as improving
Trend_nonstrict(scores) ==
    IF scores[Len(scores)] >= scores[1] THEN "improving" ELSE "declining"

\* Line 370
Trend(scores) ==
    IF scores[Len(scores)] > scores[1] THEN "improving" ELSE "declining"

\* The one requests.post of the handler, line 328
ReflectPosts(res) == <<"/reflect">>

\* Lines 334-338 for every mood text drawn, evaluated once
NormalizedOf == [mood \in MoodTexts |-> Normalized(KeywordScore(mood))]

\* What a run of the handler leaves; ok: it ran to the end of the 200 branch
ReflectOutcome(S, posts, err, shown, ok) ==
    [state |-> S, posts |-> posts, error |-> err, shown |-> shown, ok |-> ok,
     export |-> IF "download" \in shown THEN ExportCsv(S) ELSE <<>>,
     trend  |-> IF "summary" \in shown THEN Trend(S["emotion_timeline"]) ELSE ""]

ReflectRun(S0, mood, res, feedback) ==
    LET S1 == AppendScore(S0, NormalizedOf[mood])
        S2 == AppendFeedback(S1, feedback)
    IN  IF "profile" \notin DOMAIN S0
        THEN ReflectOutcome(S0, <<>>, "uncaught exception", {}, FALSE)           \* 306
        ELSE IF PayloadRaises(S0["profile"])
        THEN ReflectOutcome(S0, <<>>, "uncaught exception", {}, FALSE)           \* 322
        ELSE IF res.raises
        THEN ReflectOutcome(S0, ReflectPosts(res), "Reflection failed", {},
                            FALSE)                                               \* 328, 383
        ELSE IF res.status_code # 200 /\ res.json[1] = "invalid"
        THEN ReflectOutcome(S0, ReflectPosts(res), "Reflection failed", {},
                            FALSE)                                               \* 381, 383
        ELSE IF res.status_code # 200
        THEN ReflectOutcome(S0, ReflectPosts(res), "Journal generation failed.",
                            {"res.json"}, FALSE)                                 \* 380-381
        ELSE IF res.json[1] # "dict"
        THEN ReflectOutcome(S0, ReflectPosts(res), "Reflection failed", {},
                            FALSE)                                               \* 330, 383
        ELSE IF Len(S2["emotion_timeline"]) # Len(S2["feedback_log"])
        THEN ReflectOutcome(S2, ReflectPosts(res), "Reflection failed",
                            {"journal", "timeline", "logged"}, FALSE)            \* 349, 383
        ELSE ReflectOutcome(S2, ReflectPosts(res), "",
                            {"journal", "timeline", "logged", "download", "summary"},
                            TRUE)                                                \* 330-377

Reflect ==
    /\ ui.tab2 = "form"                       \* the form is on the page, 300-304
    /\ ReflectionTab(session_state) = "form"  \* 297, in the submission's run
    /\ Len(session_state["emotion_timeline"]) < MaxEntries
    /\ \E mood \in MoodTexts, res \in ReflectResponses, feedback \in FeedbackValues :
         \E r \in {ReflectRun(session_state, mood, res, feedback)} :
           /\ session_state' = r.state
           /\ ui' = [NoUi EXCEPT !.kind = "reflect", !.res = res, !.posts = r.posts,
                                 !.error = r.error, !.shown = r.shown,
                                 !.export = r.export, !.trend = r.trend,
                                 !.tab2 = ReflectionTab(session_state)]
           /\ reflections_ok' = IF r.ok THEN reflections_ok + 1 ELSE reflections_ok
           /\ UNCHANGED <<fn_in, fn_out>>

----------------------------------------------------------------------------
(* The session: state after the first script run (no form submitted): lines *)
(* 290-293 have created the two empty ledgers.                              *)

\* A script run with no form submitted (page load, or any other interaction):
\* both handlers are skipped (lines 59, 305) and the page is built to the end
Rerun ==
    /\ ui' = [NoUi EXCEPT !.tab2 = ReflectionTab(session_state)]
    /\ UNCHANGED <<session_state, reflections_ok, fn_in, fn_out>>

Init ==
    /\ session_state = [emotion_timeline |-> <<>>, feedback_log |-> <<>>]
    /\ ui = [NoUi EXCEPT !.tab2 = ReflectionTab(session_state)]
    /\ reflections_ok = 0
    /\ fn_in = <<>>
    /\ fn_out = <<>>

Next == Generate \/ Reflect \/ Rerun

Spec == Init /\ [][Next]_vars

----------------------------------------------------------------------------
(* Session claims *)

Failed(u) == u.error # ""

\* C1: a generate or reflect submission that ends in a user-visible failure
\* leaves the session state exactly as it was before the submission.
C1_FailureLeavesState ==
    [][Failed(ui') => session_state' = session_state]_vars

\* A failed generate submission that replaced the stored profile
C1_Reached ==
    /\ ui.kind = "generate"
    /\ Failed(ui)
    /\ "profile" \in DOMAIN session_state
    /\ session_state["profile"] = ui.res.json[2]

\* C2: in every reachable state the two ledgers have the same length, and that
\* length is the number of reflect submissions that completed successfully.
C2_LedgersParallel ==
    /\ Len(session_state["emotion_timeline"]) = Len(session_state["feedback_log"])
    /\ Len(session_state["emotion_timeline"]) = reflections_ok

\* Two reflections recorded, then a failed generate submission
C2_Witness ==
    /\ reflections_ok = 2
    /\ Len(session_state["feedback_log"]) = 2
    /\ ui.kind = "generate"
    /\ Failed(ui)

\* C3: every ledger entry is a normalized score in [0, 1] with a helpfulness
\* rating in 0..5.
C3_EntriesInRange ==
    /\ \A i \in 1..Len(session_state["emotion_timeline"]) :
           session_state["emotion_timeline"][i] \in 0..100
    /\ \A i \in 1..Len(session_state["feedback_log"]) :
           session_state["feedback_log"][i] \in SliderMin..SliderMax

\* The response passes the validation of lines 82-94
ValidGenerate(res) ==
    /\ ~res.raises
    /\ res.status_code = 200
    /\ res.json[1] = "dict"
    /\ Get(res.json[2], "status", "") # "error"
    /\ "neurotransmitters" \in DOMAIN res.json[2]

ProfileOf(S) == IF "profile" \in DOMAIN S THEN <<S["profile"]>> ELSE <<>>

\* Sections that only show the rejected response for diagnosis
Diagnostics == {"res.text", "profile dump"}

\* C4 as stated: one POST /generate per submission; the response becomes the
\* session profile only if it is valid; a rejected response shows an error,
\* renders nothing from the response, keeps the stored profile, sends no
\* second request.
C4_Original ==
    [][ui'.kind = "generate" =>
         /\ ui'.posts = <<"/generate">>
         /\ (ProfileOf(session_state') = <<ui'.res.json[2]>> => ValidGenerate(ui'.res))
         /\ (~ui'.res.raises /\ ~ValidGenerate(ui'.res)) =>
               /\ Failed(ui')
               /\ ui'.shown = {}
               /\ ProfileOf(session_state') = ProfileOf(session_state)]_vars

\* C4 as amended: as above, but what is rendered from a rejected response is
\* only its diagnostic dump (the raw body of a non-200 response, the body
\* without neurotransmitters), never a profile section.
C4_RejectedResponse ==
    [][ui'.kind = "generate" =>
         /\ ui'.posts = <<"/generate">>
         /\ (ProfileOf(session_state') = <<ui'.res.json[2]>> => ValidGenerate(ui'.res))
         /\ (~ui'.res.raises /\ ~ValidGenerate(ui'.res)) =>
               /\ Failed(ui')
               /\ ui'.shown \subseteq Diagnostics
               /\ (ui'.res.status_code # 200 => ui'.shown = {"res.text"})
               /\ ProfileOf(session_state') = ProfileOf(session_state)]_vars

\* A non-200 response arrived while a profile was stored, and the profile stayed
C4_Witness ==
    /\ ui.kind = "generate"
    /\ ui.res.status_code = 500
    /\ ui.error = "API error."
    /\ ui.posts = <<"/generate">>
    /\ "profile" \in DOMAIN session_state

\* The reflect submission just handled completed successfully
ReflectionDone == ui.kind = "reflect" /\ ~Failed(ui)

Timeline == session_state["emotion_timeline"]
Feedback == session_state["feedback_log"]

\* C7: after every successful reflection the trend reported over the whole
\* ledger is "improving" exactly when the last recorded score is strictly
\* greater than the first one, and "declining" otherwise (one entry, or equal
\* first and last scores, included).
C7_Trend ==
    ReflectionDone =>
        /\ ui.trend \in {"improving", "declining"}
        /\ (ui.trend = "improving") <=> (Timeline[Len(Timeline)] > Timeline[1])
        /\ (Len(Timeline) = 1 => ui.trend = "declining")

\* Two entries with equal scores: reported as declining
C7_Witness ==
    /\ ReflectionDone
    /\ Len(Timeline) = 2
    /\ Timeline[1] = Timeline[2]
    /\ ui.trend = "declining"

\* C8: the exported table has one row per ledger entry, and re-parsing it
\* gives back the scores and the ratings of the ledger, in ledger order.
C8_ExportRoundTrip ==
    ReflectionDone =>
        LET rows == ParseCsv(ui.export) IN
        /\ Len(rows) = Len(Timeline)
        /\ \A i \in 1..Len(rows) :
              /\ Len(rows[i]) = Len(CsvHeader)
              /\ ParseFloat(rows[i][2]) = Timeline[i]
              /\ StrToNat(rows[i][3]) = Feedback[i]

\* An export of two entries that differ in score and in rating
C8_Witness ==
    /\ ReflectionDone
    /\ Len(Timeline) = 2
    /\ Timeline[1] # Timeline[2]
    /\ Feedback[1] # Feedback[2]
    /\ Len(ParseCsv(ui.export)) = 2

\* C9: in every export the Circadian Window column holds one value in all
\* rows, the circadian window of the profile held in session state.
C9_WindowOfProfile ==
    ReflectionDone =>
        \A i \in 1..Len(ParseCsv(ui.export)) :
            ParseCsv(ui.export)[i][4] = Get(session_state["profile"], "circadian_window", <<>>)

\* An export made while the stored profile and the stored window disagree
C9_Reached ==
    /\ ReflectionDone
    /\ Len(Timeline) >= 1
    /\ Get(session_state["profile"], "circadian_window", <<>>)
           # Get(session_state, "circadian_window", <<>>)

\* A profile is held in the session state
Stored(S) == "profile" \in DOMAIN S

\* The generate handler left main at one of the returns of lines 85, 90, 94
RejectedAtValidation(res) ==
    /\ ~res.raises
    /\ \/ res.status_code # 200
       \/ /\ res.json[1] = "dict"
          /\ \/ Get(res.json[2], "status", "") = "error"
             \/ "neurotransmitters" \notin DOMAIN res.json[2]

\* A reflect submission is made, and POST /reflect sent, only with a profile
\* stored; a profile is stored or replaced only by a generate submission whose
\* response passed validation, and it is that response.
ReflectGate ==
    /\ ui'.kind = "reflect" => Stored(session_state)
    /\ ui'.posts = <<"/reflect">> => Stored(session_state)
    /\ (Stored(session_state') /\ ProfileOf(session_state') # ProfileOf(session_state)) =>
           /\ ui'.kind = "generate"
           /\ ValidGenerate(ui'.res)
           /\ session_state'["profile"] = ui'.res.json[2]

\* C11 as stated: POST /reflect is sent only after an earlier generate
\* submission's response passed validation and was stored as the session
\* profile; before that the reflection tab shows the warning and no form.
C11_Original ==
    /\ ~Stored(session_state) => ui.tab2 = "warning"
    /\ [][/\ ReflectGate
          /\ ~Stored(session_state') => ui'.tab2 = "warning"]_vars

\* C11, amended: POST /reflect is sent only after an earlier generate
\* submission's response passed validation and was stored as the session
\* profile; before that the reflection tab offers no form: it shows the
\* warning, or nothing at all in the script run of a generate submission that
\* was rejected at validation.
C11_ReflectAfterProfile ==
    /\ ~Stored(session_state) => ui.tab2 = "warning"
    /\ [][/\ ReflectGate
          /\ ~Stored(session_state') =>
                 ui'.tab2 = IF ui'.kind = "generate" /\ RejectedAtValidation(ui'.res)
                            THEN "none" ELSE "warning"]_vars

\* POST /reflect has been sent for a stored profile
C11_Witness ==
    /\ ui.kind = "reflect"
    /\ ui.posts = <<"/reflect">>
    /\ Stored(session_state)
    /\ ui.tab2 = "form"

----------------------------------------------------------------------------
(* The mood score as a function of the neurotransmitter mapping: every      *)
(* mapping of a subset of the five keys to the levels below (in hundredths: *)
(* below 0, inside [0,1] and above 1) is an input.                          *)

SessionIdle ==
    /\ session_state = [emotion_timeline |-> <<>>, feedback_log |-> <<>>]
    /\ ui = NoUi
    /\ reflections_ok = 0

LevelValues == {-50, 20, 33, 80, 150}

NtInputs ==
    UNION {[K -> LevelValues] : K \in SUBSET {NtKeys[i] : i \in 1..Len(NtKeys)}}

InitMood ==
    /\ SessionIdle
    /\ fn_in \in NtInputs
    /\ fn_out = <<>>

ComputeMood ==
    /\ fn_out = <<>>
    /\ \E mood \in MoodScoreValues(fn_in) : fn_out' = <<mood>>
    /\ UNCHANGED <<session_state, ui, reflections_ok, fn_in>>

SpecMood == InitMood /\ [][ComputeMood]_vars

\* The weighted sum of the claim, in units of 1/10000, missing keys as 0
ClaimedSum(nt) ==
    25 * Get(nt, "dopamine", 0) + 25 * Get(nt, "serotonin", 0)
    + 20 * Get(nt, "oxytocin", 0) + 20 * Get(nt, "GABA", 0)
    - 15 * Get(nt, "cortisol", 0)

\* The mood score lies in [0, 100], is 0.0 below a sum of 0, 100.0 above a sum
\* of 1, and is the clamped sum times 100 to within half a tenth
MoodScoreClamped(nt, m) ==
    /\ m \in 0..1000
    /\ (ClaimedSum(nt) < 0 => m = 0)
    /\ (ClaimedSum(nt) > 10000 => m = 1000)
    /\ (ClaimedSum(nt) \in 0..10000 =>
           10 * m - ClaimedSum(nt) \in -5..5)

\* C5 as stated: the mood score is the clamped, scaled, rounded weighted sum,
\* and is 74.0 for dopamine = serotonin = oxytocin = GABA = 0.8, cortisol = 0.2.
C5_Original ==
    fn_out # <<>> =>
        /\ MoodScoreClamped(fn_in, fn_out[1])
        /\ (fn_in = NT_example => fn_out[1] = 740)

\* C5 as amended: the mood score is the clamped, scaled, rounded weighted sum,
\* and is 69.0 for dopamine = serotonin = oxytocin = GABA = 0.8, cortisol = 0.2.
C5_MoodScore ==
    fn_out # <<>> =>
        /\ MoodScoreClamped(fn_in, fn_out[1])
        /\ (fn_in = NT_example => fn_out[1] = 690)

\* The example mapping has been scored
C5_Witness == fn_in = NT_example /\ fn_out = <<690>>

----------------------------------------------------------------------------
(* The circadian/scent advisory as a function of window label and scent *)

WindowInputs == {<<>>, S_morning, S_Morning, S_evening, S_EVENING, S_night}

ScentInputs ==
    {<<>>, S_lavender, S_Lavender, <<SP>> \o S_rose \o <<SP>>, S_vanilla, S_tonkabean,
     S_citrus, S_Citrus, S_mint, S_bergamot, S_linalool, S_cedar}

InitAdvisory ==
    /\ SessionIdle
    /\ fn_in \in {[circadian_window |-> w, scent_note |-> sc] :
                     w \in WindowInputs, sc \in ScentInputs}
    /\ fn_out = <<>>

ComputeTip ==
    /\ fn_out = <<>>
    /\ fn_out' = <<ScentTip(fn_in)>>
    /\ UNCHANGED <<session_state, ui, reflections_ok, fn_in>>

SpecAdvisory == InitAdvisory /\ [][ComputeTip]_vars

\* C6: the morning tip is emitted exactly when the window is "morning" and the
\* scent is a nighttime scent, the evening tip exactly when the window is
\* "evening" and the scent is a daytime scent, nothing otherwise; letter case
\* of the window label and of the scent text does not matter.
C6_Advisory ==
    fn_out # <<>> =>
        LET window == lower(fn_in.circadian_window)
            scent  == strip(lower(fn_in.scent_note))
        IN  /\ (fn_out[1] = "morning") <=>
                   (window = S_morning /\ scent \in nighttime_scents)
            /\ (fn_out[1] = "evening") <=>
                   (window = S_evening /\ scent \in daytime_scents)
            /\ fn_out[1] \in {"morning", "evening", "none"}

\* Window "Morning" with scent "Lavender" has been advised on
C6_Reached ==
    fn_in = [circadian_window |-> S_Morning, scent_note |-> S_Lavender] /\ fn_out # <<>>

----------------------------------------------------------------------------
(* find_game_entry as a function of the recommended name and of the list    *)
(* game_profiles.json holds                                                 *)

S_halo    == <<"h","a","l","o">>
S_HALOpad == <<SP,"H","A","L","O",SP>>
S_HaloSp  == <<"H","a","l","o",SP>>
S_Halos   == <<"H","a","l","o","s">>
S_Hal     == <<"H","a","l">>
S_Tetris  == <<"T","e","t","r","i","s">>
S_Tetrs   == <<"T","e","t","r","s">>
S_Zelda   == <<"Z","e","l","d","a">>

Entry(name) == [name |-> name, challenge_level |-> "moderate"]

GameLists ==
    { <<>>,
      <<Entry(S_Halo)>>,
      <<Entry(S_Tetris)>>,
      <<Entry(S_Halos), Entry(S_Halo)>>,
      <<Entry(S_Tetris), Entry(S_Halo)>>,
      <<Entry(S_HaloSp), Entry(S_Halos)>> }

NameInputs ==
    {PyNone} \cup
    {PyStr(q) : q \in {<<>>, S_Halo, S_halo, S_HALOpad, S_HaloSp, S_Halos, S_Hal,
                       S_Tetrs, S_Zelda}}

InitGame ==
    /\ SessionIdle
    /\ fn_in \in {[name |-> q, profiles |-> L] : q \in NameInputs, L \in GameLists}
    /\ fn_out = <<>>

ComputeGame ==
    /\ fn_out = <<>>
    /\ fn_out' = <<find_game_entry(fn_in.name, fn_in.profiles)>>
    /\ UNCHANGED <<session_state, ui, reflections_ok, fn_in>>

SpecGame == InitGame /\ [][ComputeGame]_vars

\* C10: find_game_entry never raises; when some reference entry's name equals
\* the query case-insensitively it returns an entry of that name; when the
\* list is empty, nothing matches or the name is no string, it returns no entry.
C10_FindGameEntry ==
    fn_out # <<>> =>
        LET r == fn_out[1]
            q == fn_in.name
            L == fn_in.profiles
            names == {lower(L[i].name) : i \in 1..Len(L)}
        IN  /\ ~r.raised
            /\ (L = <<>> \/ ~IsStr(q)) => r.value = <<>>
            /\ (IsStr(q) /\ lower(q[2]) \in names) =>
                   /\ r.value # <<>>
                   /\ lower(r.value[1].name) = lower(q[2])
            /\ (IsStr(q) /\ \A x \in names :
                                /\ x # strip(lower(q[2]))
                                /\ ~AtLeastCutoff(ratio(x, strip(lower(q[2]))))) =>
                   r.value = <<>>
            /\ r.value # <<>> => \E i \in 1..Len(L) : r.value[1] = L[i]

\* A query equal to a reference name, letter case aside, has been looked up
C10_Reached ==
    /\ fn_out # <<>>
    /\ IsStr(fn_in.name)
    /\ \E i \in 1..Len(fn_in.profiles) :
          lower(fn_in.profiles[i].name) = lower(fn_in.name[2])

====
